---- MODULE Spec2Model ----
(***************************************************************************)
(* Model of generate_n2_kanji_images.py: the gloss line wrapper            *)
(* (_split_meaning_text / _split_long_word), the compound block layout,    *)
(* box clamp and render loop of create_kanji_image, and the CSV parse and  *)
(* batch loop of parse_kanji_csv_file / main.                              *)
(*                                                                         *)
(* A text is a sequence of one-character strings.  The text measurer       *)
(* (draw.textbbox with font_small) is the sum of the glyph advances of     *)
(* the characters, so it is monotonic in the text's length and "" has      *)
(* width 0.                                                                *)
(***************************************************************************)
EXTENDS Integers, Sequences, FiniteSets, TLC

\* ------------------------------------------------------------------ bounds
\* Longest text, in characters, handed to _split_meaning_text on its own.
MaxWrapLen == 5
\* Longest gloss, in characters, of the freely chosen compound of an entry.
MaxLen == 4
\* Most compounds in one entry.
MaxCompounds == 2
\* Most data rows in the CSV file.
MaxRows == 3

\* ------------------------------------------------------------ text measurer
\* Glyph advance, in pixels, of each character of the model's alphabet under
\* font_small: " " is the space, "k" a narrow glyph, "a" a regular glyph, "M" a
\* glyph wider than 95% of the box but not wider than the box, "W" a glyph wider
\* than the whole box.
GlyphWidth(c) ==
    CASE c = " " -> 10
      [] c = "k" -> 180
      [] c = "a" -> 300
      [] c = "M" -> 780
      [] c = "W" -> 820

RECURSIVE TextWidth(_)
\* bbox = draw.textbbox((0, 0), text, font=self.font_small); bbox[2] - bbox[0]
TextWidth(text) ==
    IF text = <<>> THEN 0 ELSE GlyphWidth(Head(text)) + TextWidth(Tail(text))

\* ------------------------------------------------------------ str helpers
RECURSIVE SplitFrom(_, _, _)
SplitFrom(text, word, acc) ==
    IF text = <<>>
    THEN IF word = <<>> THEN acc ELSE Append(acc, word)
    ELSE IF Head(text) = " "
         THEN SplitFrom(Tail(text), <<>>, IF word = <<>> THEN acc ELSE Append(acc, word))
         ELSE SplitFrom(Tail(text), Append(word, Head(text)), acc)

\* str.split(): the maximal runs of non-whitespace characters, in order.
Split(text) == SplitFrom(text, <<>>, <<>>)

RECURSIVE Join(_)
\* " ".join(words)
Join(word_list) ==
    IF word_list = <<>> THEN <<>>
    ELSE IF Len(word_list) = 1 THEN Head(word_list)
    ELSE Head(word_list) \o <<" ">> \o Join(Tail(word_list))

\* {"kanji": "", "reading": "", "meaning": text}
GlossLine(text) == [kanji |-> <<>>, reading |-> <<>>, meaning |-> text]

\* ------------------------------------------------------- _split_long_word
\* test_width <= max_width * 0.95.  The glyph advances are integers and
\* max_width is an integer, so the float comparison agrees with this exact one.
FitsWithMargin(test_width, max_width) == test_width * 100 <= max_width * 95

RECURSIVE LongWordLoopDropChar(_, _, _, _)
\* _split_long_word with "current_chars = char" slipped to "current_chars = ''".
LongWordLoopDropChar(chars, current_chars, max_width, wrapped_lines) ==
    IF chars = <<>>
    THEN IF current_chars # <<>>
         THEN Append(wrapped_lines, GlossLine(current_chars))
         ELSE wrapped_lines
    ELSE LET test_chars == Append(current_chars, Head(chars))
         IN  IF FitsWithMargin(TextWidth(test_chars), max_width)
             THEN LongWordLoopDropChar(Tail(chars), test_chars, max_width, wrapped_lines)
             ELSE LongWordLoopDropChar(Tail(chars), <<>>, max_width,
                      IF current_chars # <<>>
                      THEN Append(wrapped_lines, GlossLine(current_chars))
                      ELSE wrapped_lines)

RECURSIVE LongWordLoopNoMargin(_, _, _, _)
\* _split_long_word with the 0.95 safety factor left out of the comparison.
LongWordLoopNoMargin(chars, current_chars, max_width, wrapped_lines) ==
    IF chars = <<>>
    THEN IF current_chars # <<>>
         THEN Append(wrapped_lines, GlossLine(current_chars))
         ELSE wrapped_lines
    ELSE LET test_chars == Append(current_chars, Head(chars))
         IN  IF TextWidth(test_chars) <= max_width
             THEN LongWordLoopNoMargin(Tail(chars), test_chars, max_width, wrapped_lines)
             ELSE LongWordLoopNoMargin(Tail(chars), <<Head(chars)>>, max_width,
                      IF current_chars # <<>>
                      THEN Append(wrapped_lines, GlossLine(current_chars))
                      ELSE wrapped_lines)

RECURSIVE LongWordLoop(_, _, _, _)
\* The "for char in long_word" loop and the final flush; chars are the
\* characters still to visit.
LongWordLoop(chars, current_chars, max_width, wrapped_lines) ==
    IF chars = <<>>
    THEN IF current_chars # <<>>
         THEN Append(wrapped_lines, GlossLine(current_chars))
         ELSE wrapped_lines
    ELSE LET test_chars == Append(current_chars, Head(chars))
         IN  IF FitsWithMargin(TextWidth(test_chars), max_width)
             THEN LongWordLoop(Tail(chars), test_chars, max_width, wrapped_lines)
             ELSE LongWordLoop(Tail(chars), <<Head(chars)>>, max_width,
                      IF current_chars # <<>>
                      THEN Append(wrapped_lines, GlossLine(current_chars))
                      ELSE wrapped_lines)

split_long_word(long_word, max_width, wrapped_lines) ==
    LongWordLoop(long_word, <<>>, max_width, wrapped_lines)

\* ----------------------------------------------------- _split_meaning_text
\* The branch of the loop body a word takes: "append" (joins the current
\* line), "alone" (starts a new line) or "fallback" (_split_long_word).
WordBranch(current_line_words, word, max_width) ==
    IF TextWidth(Join(Append(current_line_words, word))) <= max_width THEN "append"
    ELSE IF TextWidth(word) <= max_width THEN "alone"
    ELSE "fallback"

\* The loop body with the flushed line being test_text (the line plus the
\* word that did not fit) instead of the current line.
WordStepFlushTest(current_line_words, wrapped_lines, word, max_width) ==
    LET test_text == Join(Append(current_line_words, word))
        flushed   == IF current_line_words # <<>>
                     THEN Append(wrapped_lines, GlossLine(test_text))
                     ELSE wrapped_lines
    IN  IF TextWidth(test_text) <= max_width
        THEN [current_line_words |-> Append(current_line_words, word),
              wrapped_lines |-> wrapped_lines]
        ELSE IF TextWidth(word) <= max_width
             THEN [current_line_words |-> <<word>>, wrapped_lines |-> flushed]
             ELSE [current_line_words |-> <<>>,
                   wrapped_lines |-> split_long_word(word, max_width, flushed)]

\* One iteration of "for word in words": the new current_line_words and
\* wrapped_lines.
WordStep(current_line_words, wrapped_lines, word, max_width) ==
    LET test_text == Join(Append(current_line_words, word))
        flushed   == IF current_line_words # <<>>
                     THEN Append(wrapped_lines, GlossLine(Join(current_line_words)))
                     ELSE wrapped_lines
    IN  IF TextWidth(test_text) <= max_width
        THEN [current_line_words |-> Append(current_line_words, word),
              wrapped_lines |-> wrapped_lines]
        ELSE IF TextWidth(word) <= max_width
             THEN [current_line_words |-> <<word>>, wrapped_lines |-> flushed]
             ELSE [current_line_words |-> <<>>,
                   wrapped_lines |-> split_long_word(word, max_width, flushed)]

\* "if current_line_words: wrapped_lines.append(...)" after the loop.
FinalFlush(current_line_words, wrapped_lines) ==
    IF current_line_words # <<>>
    THEN Append(wrapped_lines, GlossLine(Join(current_line_words)))
    ELSE wrapped_lines

RECURSIVE WordLoop(_, _, _, _)
WordLoop(word_list, current_line_words, wrapped_lines, max_width) ==
    IF word_list = <<>>
    THEN FinalFlush(current_line_words, wrapped_lines)
    ELSE LET s == WordStep(current_line_words, wrapped_lines, Head(word_list), max_width)
         IN  WordLoop(Tail(word_list), s.current_line_words, s.wrapped_lines, max_width)

\* _split_meaning_text(meaning, max_width, wrapped_lines, draw): the list
\* wrapped_lines after the call.
split_meaning_text(meaning, max_width, wrapped_lines) ==
    WordLoop(Split(meaning), <<>>, wrapped_lines, max_width)


\* ------------------------------------------------------ image configuration
IMAGE_WIDTH == 1260
IMAGE_HEIGHT == 520
x_margin == 50
y_margin == 30
vertical_spacing == 15
box_padding == 15
line_spacing == 30

left_x == x_margin
right_x == left_x + 300
available_width == IMAGE_WIDTH - right_x - x_margin - 20
max_box_width == available_width - (box_padding * 2)

\* right_y when the compounds box starts: below the meaning and below each
\* kind of reading the entry has.
HeaderRightY(entry) ==
    y_margin + (45 + vertical_spacing)
      + (IF entry.hiragana_readings # <<>> THEN 40 + vertical_spacing ELSE 0)
      + (IF entry.katakana_readings # <<>> THEN 40 + vertical_spacing ELSE 0)

\* ------------------------------------------- compound layout (the for loop)
RECURSIVE RemoveFirst(_, _)
\* list.remove(x): the list without its first element equal to x.
RemoveFirst(list, x) ==
    IF list = <<>> THEN <<>>
    ELSE IF Head(list) = x THEN Tail(list)
    ELSE <<Head(list)>> \o RemoveFirst(Tail(list), x)

RECURSIVE FirstLineLoopNoRemove(_, _, _, _)
\* The first-line loop with "remaining_words.remove(word)" left out.
FirstLineLoopNoRemove(word_list, first_line_words, remaining_words, remaining_width) ==
    IF word_list = <<>>
    THEN [first_line_words |-> first_line_words, remaining_words |-> remaining_words]
    ELSE IF TextWidth(Join(Append(first_line_words, Head(word_list)))) <= remaining_width
         THEN FirstLineLoopNoRemove(Tail(word_list),
                                    Append(first_line_words, Head(word_list)),
                                    remaining_words,
                                    remaining_width)
         ELSE [first_line_words |-> first_line_words, remaining_words |-> remaining_words]

RECURSIVE FirstLineLoop(_, _, _, _)
\* "for word in meaning_words": words are moved from remaining_words to
\* first_line_words while the joined first line fits remaining_width; the
\* loop breaks at the first word that does not fit.
FirstLineLoop(word_list, first_line_words, remaining_words, remaining_width) ==
    IF word_list = <<>>
    THEN [first_line_words |-> first_line_words, remaining_words |-> remaining_words]
    ELSE IF TextWidth(Join(Append(first_line_words, Head(word_list)))) <= remaining_width
         THEN FirstLineLoop(Tail(word_list),
                            Append(first_line_words, Head(word_list)),
                            RemoveFirst(remaining_words, Head(word_list)),
                            remaining_width)
         ELSE [first_line_words |-> first_line_words, remaining_words |-> remaining_words]

total_width(compound) ==
    TextWidth(compound.kanji) + 8 + TextWidth(compound.reading) + 12
      + TextWidth(compound.meaning)

kr_width(compound) == TextWidth(compound.kanji) + 8 + TextWidth(compound.reading) + 12

\* The branch of the loop body a compound takes: "single" (all parts on one
\* line), "hybrid" (headword, reading and some gloss words on the first line),
\* "nofit" (room after the reading, but no gloss word fits it), "split" (no
\* room after the reading).
CompoundBranch(compound) ==
    IF total_width(compound) <= max_box_width THEN "single"
    ELSE IF kr_width(compound) < max_box_width
            /\ max_box_width - kr_width(compound) > 20
         THEN IF FirstLineLoop(Split(compound.meaning), <<>>, Split(compound.meaning),
                               max_box_width - kr_width(compound)).first_line_words # <<>>
              THEN "hybrid"
              ELSE "nofit"
         ELSE "split"

\* The headword + reading line carrying the whole gloss as well (the
\* compound's own record appended instead of the one with an empty gloss).
HeadLineWithGloss(compound) ==
    [kanji |-> compound.kanji, reading |-> compound.reading,
     meaning |-> compound.meaning]

\* The headword + reading line of a compound whose gloss goes to other lines.
HeadLine(compound) ==
    [kanji |-> compound.kanji, reading |-> compound.reading, meaning |-> <<>>]

\* One iteration of "for compound in kanji_data['compounds']":
\* wrapped_compound_lines after it.
LayoutCompound(compound, wrapped_lines) ==
    IF total_width(compound) <= max_box_width
    THEN Append(wrapped_lines,
                [kanji |-> compound.kanji, reading |-> compound.reading,
                 meaning |-> compound.meaning])
    ELSE LET remaining_width == max_box_width - kr_width(compound)
         IN  IF kr_width(compound) < max_box_width /\ remaining_width > 20
             THEN LET meaning_words == Split(compound.meaning)
                      fl == FirstLineLoop(meaning_words, <<>>, meaning_words,
                                          remaining_width)
                  IN  IF fl.first_line_words # <<>>
                      THEN LET first == Append(wrapped_lines,
                                          [kanji |-> compound.kanji,
                                           reading |-> compound.reading,
                                           meaning |-> Join(fl.first_line_words)])
                           IN  IF fl.remaining_words # <<>>
                               THEN split_meaning_text(Join(fl.remaining_words),
                                                       max_box_width, first)
                               ELSE first
                      ELSE split_meaning_text(compound.meaning, max_box_width,
                                              Append(wrapped_lines, HeadLine(compound)))
             ELSE split_meaning_text(compound.meaning, max_box_width,
                                     Append(wrapped_lines, HeadLine(compound)))

\* ---------------------------------------------------------------- box height
\* box_y1 with the clamp left out: the box as high as its lines need.
BoxY1Unclamped(wrapped_lines, y0) ==
    IF wrapped_lines # <<>>
    THEN y0 + (Len(wrapped_lines) * line_spacing + (box_padding * 2))
    ELSE y0 + (box_padding * 2) + 30

\* box_y1 with the 30 px minimum content height of the empty box left out.
BoxY1EmptyCollapsed(wrapped_lines, y0) ==
    LET content == IF Len(wrapped_lines) * line_spacing
                        <= IMAGE_HEIGHT - y0 - 30 - (box_padding * 2)
                   THEN Len(wrapped_lines) * line_spacing
                   ELSE IMAGE_HEIGHT - y0 - 30 - (box_padding * 2)
    IN  y0 + content + (box_padding * 2)

Min(x, y) == IF x <= y THEN x ELSE y

\* box_y1 for the wrapped lines and the box top y0.
BoxY1(wrapped_lines, y0) ==
    IF wrapped_lines # <<>>
    THEN LET max_available_height == IMAGE_HEIGHT - y0 - 30
             ideal_content_height == Len(wrapped_lines) * line_spacing
             actual_content_height ==
                 Min(ideal_content_height, max_available_height - (box_padding * 2))
             box_height == actual_content_height + (box_padding * 2)
         IN  y0 + box_height
    ELSE y0 + (box_padding * 2) + 30

\* ---------------------------------------------------------------- render loop
\* x of the reading and of the gloss of a line drawn from current_x = right_x:
\* a part that is empty is not drawn and adds no gap.
\* The reading's x with the 8 px gap added whether or not a headword is drawn.
ReadingXAlwaysGap(line) == right_x + TextWidth(line.kanji) + 8

ReadingX(line) ==
    right_x + (IF line.kanji # <<>> THEN TextWidth(line.kanji) + 8 ELSE 0)

MeaningX(line) ==
    ReadingX(line) + (IF line.reading # <<>> THEN TextWidth(line.reading) + 12 ELSE 0)

\* The draw.text calls of one line at cursor y, in order.
DrawLine(line, y) ==
    (IF line.kanji # <<>>
     THEN <<[part |-> "kanji", x |-> right_x, y |-> y, text |-> line.kanji]>>
     ELSE <<>>)
    \o (IF line.reading # <<>>
        THEN <<[part |-> "reading", x |-> ReadingX(line), y |-> y, text |-> line.reading]>>
        ELSE <<>>)
    \o (IF line.meaning # <<>>
        THEN <<[part |-> "meaning", x |-> MeaningX(line), y |-> y, text |-> line.meaning]>>
        ELSE <<>>)

RECURSIVE RenderLoopNoBreak(_, _, _, _)
\* The for loop over the lines without its break: every line is visited.
RenderLoopNoBreak(wrapped_lines, i, compound_y, y1) ==
    IF i > Len(wrapped_lines) THEN <<>>
    ELSE <<DrawLine(wrapped_lines[i], compound_y)>>
         \o RenderLoopNoBreak(wrapped_lines, i + 1, compound_y + line_spacing, y1)

RECURSIVE RenderLoop(_, _, _, _)
\* "for line_parts in wrapped_compound_lines" from line i at cursor compound_y:
\* the draw.text calls of each iteration, one element per line visited; the
\* loop breaks once the cursor, after a line, is beyond y1 - box_padding.
RenderLoop(wrapped_lines, i, compound_y, y1) ==
    IF i > Len(wrapped_lines) THEN <<>>
    ELSE <<DrawLine(wrapped_lines[i], compound_y)>>
         \o (IF compound_y + line_spacing > y1 - box_padding
             THEN <<>>
             ELSE RenderLoop(wrapped_lines, i + 1, compound_y + line_spacing, y1))

\* ------------------------------------------------------------------ state
VARIABLES
    w_pc,        \* position in _split_meaning_text: "loop", "done", "refed"
    w_meaning,   \* its argument meaning
    w_max_width, \* its argument max_width
    w_words,     \* the words the for loop has not visited yet
    w_current,   \* current_line_words
    w_lines,     \* wrapped_lines (empty at the call)
    w_fallback,  \* history: <<first, last>> line indices of each _split_long_word call
    w_refed,     \* index of the line fed back into _split_meaning_text (0: none)
    w_relines    \* the lines produced by wrapping that line again

wrapVars == <<w_pc, w_meaning, w_max_width, w_words, w_current, w_lines,
              w_fallback, w_refed, w_relines>>

VARIABLES
    pc,                     \* position in create_kanji_image
    kanji_data,             \* its argument
    compound_i,             \* index of the next compound of the for loop
    wrapped_compound_lines, \* the line records built so far
    line_spans,             \* history: <<first, last>> line indices of each compound
    box_y0,                 \* top of the compounds box
    box_y1,                 \* bottom of the compounds box
    rects,                  \* the draw.rectangle calls made: <<x0, y0, x1, y1>>
    drawn,                  \* the draw.text calls of each line the render loop visited
    result                  \* the return value: "none" until it returns

layoutVars == <<pc, kanji_data, compound_i, wrapped_compound_lines, line_spans,
                box_y0, box_y1, rects, drawn, result>>

VARIABLES
    b_pc,          \* position in main / parse_kanji_csv_file
    b_args,        \* whether sys.argv holds exactly the CSV file name
    b_file,        \* whether the CSV file exists
    b_rows,        \* the data rows of the CSV file
    b_row,         \* index of the next row of the reader loop
    parsed_kanji,  \* the list parse_kanji_csv_file builds
    kanji_list,    \* the list main got back
    gen_i,         \* index i of the generation loop of main
    successful,    \* counter of main
    failed,        \* counter of main
    attempts,      \* history: the create_kanji_image calls of main
    reported       \* whether the final success / failure counts were printed

batchVars == <<b_pc, b_args, b_file, b_rows, b_row, parsed_kanji, kanji_list,
               gen_i, successful, failed, attempts, reported>>

vars == <<wrapVars, layoutVars, batchVars>>

\* main is not running.
BatchIdle ==
    /\ b_pc = "off" /\ b_args = FALSE /\ b_file = FALSE /\ b_rows = <<>> /\ b_row = 0
    /\ parsed_kanji = <<>> /\ kanji_list = <<>> /\ gen_i = 0 /\ successful = 0
    /\ failed = 0 /\ attempts = <<>> /\ reported = FALSE

\* The wrapper, respectively create_kanji_image, is not running.
WrapIdle ==
    /\ w_pc = "off" /\ w_meaning = <<>> /\ w_max_width = 0 /\ w_words = <<>>
    /\ w_current = <<>> /\ w_lines = <<>> /\ w_fallback = {} /\ w_refed = 0
    /\ w_relines = <<>>

NoEntry == [kanji |-> <<>>, hiragana_readings |-> <<>>, katakana_readings |-> <<>>,
            compounds |-> <<>>]

LayoutIdle ==
    /\ pc = "off" /\ kanji_data = NoEntry /\ compound_i = 0
    /\ wrapped_compound_lines = <<>> /\ line_spans = <<>> /\ box_y0 = 0
    /\ box_y1 = 0 /\ rects = <<>> /\ drawn = <<>> /\ result = "none"

\* ------------------------------------------------- inputs of the wrapper
GlossAlphabet == {" ", "a", "M", "W"}

TextsUpTo(alphabet, n) == UNION {[1..k -> alphabet] : k \in 0..n}

\* 810 is max_box_width, the only width the program passes; the others make
\* "a" fit exactly (300) and "aa" fall between 95% and 100% of the width (620).
WrapWidths == {300, 620, 810}

InitWrap ==
    /\ w_pc = "loop"
    /\ w_meaning \in TextsUpTo(GlossAlphabet, MaxWrapLen)
    /\ w_max_width \in WrapWidths
    /\ w_words = Split(w_meaning)
    /\ w_current = <<>>
    /\ w_lines = <<>>
    /\ w_fallback = {}
    /\ w_refed = 0
    /\ w_relines = <<>>
    /\ LayoutIdle
    /\ BatchIdle

\* One iteration of the for loop of _split_meaning_text.
WrapWord ==
    /\ w_pc = "loop"
    /\ w_words # <<>>
    /\ LET word == Head(w_words)
           s == WordStep(w_current, w_lines, word, w_max_width)
           flushedLen == Len(w_lines) + (IF w_current # <<>> THEN 1 ELSE 0)
       IN  /\ w_current' = s.current_line_words
           /\ w_lines' = s.wrapped_lines
           /\ w_fallback' =
                IF WordBranch(w_current, word, w_max_width) = "fallback"
                THEN w_fallback \cup {<<flushedLen + 1, Len(s.wrapped_lines)>>}
                ELSE w_fallback
    /\ w_words' = Tail(w_words)
    /\ UNCHANGED <<w_pc, w_meaning, w_max_width, w_refed, w_relines, layoutVars, batchVars>>

\* The flush after the loop; the call returns.
WrapFinish ==
    /\ w_pc = "loop"
    /\ w_words = <<>>
    /\ w_lines' = FinalFlush(w_current, w_lines)
    /\ w_current' = <<>>
    /\ w_pc' = "done"
    /\ UNCHANGED <<w_meaning, w_max_width, w_words, w_fallback, w_refed, w_relines,
                   layoutVars, batchVars>>

\* A produced line's text is wrapped again with the same max_width.
WrapAgain ==
    /\ w_pc = "done"
    /\ \E i \in 1..Len(w_lines) :
         /\ w_refed' = i
         /\ w_relines' = split_meaning_text(w_lines[i].meaning, w_max_width, <<>>)
    /\ w_pc' = "refed"
    /\ UNCHANGED <<w_meaning, w_max_width, w_words, w_current, w_lines, w_fallback,
                   layoutVars, batchVars>>

NextWrap == WrapWord \/ WrapFinish \/ WrapAgain

SpecWrap == InitWrap /\ [][NextWrap]_vars

\* ------------------------------------------------ create_kanji_image: inputs
Compound(k, r, m) == [kanji |-> k, reading |-> r, meaning |-> m]

\* The freely chosen compound: every headword and reading below with every
\* gloss of at most MaxLen characters.
Headwords == {<<>>, <<"k">>, <<"M">>, <<"W">>}
Readings == {<<>>, <<"a">>}
LayoutAlphabet == {" ", "a", "W"}
RichCompounds ==
    {Compound(k, r, m) : k \in Headwords, r \in Readings,
                         m \in TextsUpTo(LayoutAlphabet, MaxLen)}

\* The compounds around it: one that fits a single line, and one whose
\* headword fills a line and whose gloss needs a line per character.
FewCompounds ==
    {Compound(<<"k">>, <<"a">>, <<"a">>),
     Compound(<<"W">>, <<>>, <<"W", "W", "W", "W", "W", "W">>)}

FewLists(n) == UNION {[1..j -> FewCompounds] : j \in 0..n}

\* The compound lists of the entries: at most MaxCompounds compounds, at most
\* one of them freely chosen, at any place of the list.
CompoundLists ==
    FewLists(MaxCompounds)
    \cup {t[1] \o <<t[2]>> \o t[3] : t \in
            {u \in FewLists(MaxCompounds - 1) \X RichCompounds
                     \X FewLists(MaxCompounds - 1) :
                Len(u[1]) + Len(u[3]) < MaxCompounds}}

Entries ==
    [kanji : {<<>>, <<"k">>},
     hiragana_readings : {<<>>, <<<<"a">>>>},
     katakana_readings : {<<>>, <<<<"a">>>>},
     compounds : CompoundLists]

InitLayout ==
    /\ pc = "start"
    /\ kanji_data \in Entries
    /\ compound_i = 0
    /\ wrapped_compound_lines = <<>>
    /\ line_spans = <<>>
    /\ box_y0 = 0
    /\ box_y1 = 0
    /\ rects = <<>>
    /\ drawn = <<>>
    /\ result = "none"
    /\ WrapIdle
    /\ BatchIdle

\* ----------------------------------------------- create_kanji_image: actions
\* "if not kanji_data or not kanji_data.get('kanji'): return False"
RejectInvalid ==
    /\ pc = "start"
    /\ kanji_data.kanji = <<>>
    /\ result' = "False"
    /\ pc' = "done"
    /\ UNCHANGED <<kanji_data, compound_i, wrapped_compound_lines, line_spans,
                   box_y0, box_y1, rects, drawn, wrapVars, batchVars>>

\* The headline, the meaning and the readings are drawn; the box geometry is set.
DrawHeader ==
    /\ pc = "start"
    /\ kanji_data.kanji # <<>>
    /\ box_y0' = HeaderRightY(kanji_data) + vertical_spacing
    /\ compound_i' = 1
    /\ pc' = "compounds"
    /\ UNCHANGED <<kanji_data, wrapped_compound_lines, line_spans, box_y1, rects,
                   drawn, result, wrapVars, batchVars>>

\* One iteration of the for loop over the compounds.
WrapCompound ==
    /\ pc = "compounds"
    /\ compound_i <= Len(kanji_data.compounds)
    /\ wrapped_compound_lines' =
           LayoutCompound(kanji_data.compounds[compound_i], wrapped_compound_lines)
    /\ line_spans' = Append(line_spans, <<Len(wrapped_compound_lines) + 1,
                                          Len(wrapped_compound_lines')>>)
    /\ compound_i' = compound_i + 1
    /\ UNCHANGED <<pc, kanji_data, box_y0, box_y1, rects, drawn, result, wrapVars, batchVars>>

\* The box height is computed and the box is drawn.
DrawBox ==
    /\ pc = "compounds"
    /\ compound_i > Len(kanji_data.compounds)
    /\ box_y1' = BoxY1(wrapped_compound_lines, box_y0)
    /\ rects' = Append(rects, <<right_x - box_padding, box_y0,
                                IMAGE_WIDTH - x_margin, box_y1'>>)
    /\ pc' = "render"
    /\ UNCHANGED <<kanji_data, compound_i, wrapped_compound_lines, line_spans,
                   box_y0, drawn, result, wrapVars, batchVars>>

\* The render loop over the wrapped lines.
RenderCompounds ==
    /\ pc = "render"
    /\ drawn' = IF wrapped_compound_lines # <<>>
                THEN RenderLoop(wrapped_compound_lines, 1, box_y0 + box_padding, box_y1)
                ELSE <<>>
    /\ pc' = "save"
    /\ UNCHANGED <<kanji_data, compound_i, wrapped_compound_lines, line_spans,
                   box_y0, box_y1, rects, result, wrapVars, batchVars>>

\* image.save succeeds (True) or raises and is caught (False).
SaveImage ==
    /\ pc = "save"
    /\ \E saved \in {"True", "False"} : result' = saved
    /\ pc' = "done"
    /\ UNCHANGED <<kanji_data, compound_i, wrapped_compound_lines, line_spans,
                   box_y0, box_y1, rects, drawn, wrapVars, batchVars>>

NextLayout ==
    \/ RejectInvalid
    \/ DrawHeader
    \/ WrapCompound
    \/ DrawBox
    \/ RenderCompounds
    \/ SaveImage

SpecLayout == InitLayout /\ [][NextLayout]_vars

\* ------------------------------------------- parse_kanji_csv_file and main
RECURSIVE LStrip(_)
LStrip(text) ==
    IF text # <<>> /\ Head(text) = " " THEN LStrip(Tail(text)) ELSE text

RECURSIVE RStrip(_)
RStrip(text) ==
    IF text # <<>> /\ text[Len(text)] = " "
    THEN RStrip(SubSeq(text, 1, Len(text) - 1))
    ELSE text

\* str.strip()
Strip(text) == RStrip(LStrip(text))

\* parse_csv_entry(row) for a row with all its columns: the kanji field is the
\* stripped kanji column.  The other fields do not decide what the batch does
\* with the entry and are left out.
parse_csv_entry(row) == [kanji |-> Strip(row.kanji)]

\* The test with the emptiness of the kanji left out.
KeepsEntryAlways(entry) == TRUE

\* "if kanji_data and kanji_data.get('kanji')"
KeepsEntry(entry) == entry.kanji # <<>>

\* What a create_kanji_image call can do for an entry: return True, return
\* False (no kanji, or image.save raised and was caught), or raise (an
\* exception of a draw or measure call, which no try encloses).
CreateOutcomes(entry) ==
    IF entry.kanji = <<>> THEN {"False"} ELSE {"True", "False", "raise"}

\* A row: its kanji column, and whether the later columns are there (a row
\* cut short reads as None there, and parse_csv_entry raises on None.strip()).
Rows ==
    {[kanji |-> k, complete |-> TRUE] : k \in {<<>>, <<" ">>, <<"k">>, <<"a", " ">>}}
    \cup {[kanji |-> <<"k">>, complete |-> FALSE]}

InitBatch ==
    /\ b_pc = "main"
    /\ b_args \in BOOLEAN
    /\ b_file \in BOOLEAN
    /\ b_rows \in UNION {[1..n -> Rows] : n \in 0..MaxRows}
    /\ b_row = 0
    /\ parsed_kanji = <<>>
    /\ kanji_list = <<>>
    /\ gen_i = 0
    /\ successful = 0
    /\ failed = 0
    /\ attempts = <<>>
    /\ reported = FALSE
    /\ WrapIdle
    /\ LayoutIdle

\* "if len(sys.argv) != 2": the usage text is printed and main returns.
Usage ==
    /\ b_pc = "main"
    /\ ~b_args
    /\ b_pc' = "exit"
    /\ UNCHANGED <<b_args, b_file, b_rows, b_row, parsed_kanji, kanji_list, gen_i,
                   successful, failed, attempts, reported, wrapVars, layoutVars>>

\* parse_kanji_csv_file is called: a missing file gives [] at once.
StartParse ==
    /\ b_pc = "main"
    /\ b_args
    /\ IF b_file
       THEN b_pc' = "rows" /\ b_row' = 1
       ELSE b_pc' = "parsed" /\ b_row' = b_row
    /\ UNCHANGED <<b_args, b_file, b_rows, parsed_kanji, kanji_list, gen_i,
                   successful, failed, attempts, reported, wrapVars, layoutVars>>

\* One iteration of the reader loop: the row is parsed and kept, or it has no
\* kanji (a warning), or parse_csv_entry raised (caught, the loop continues).
ParseRow ==
    /\ b_pc = "rows"
    /\ b_row <= Len(b_rows)
    /\ parsed_kanji' =
         IF b_rows[b_row].complete /\ KeepsEntry(parse_csv_entry(b_rows[b_row]))
         THEN Append(parsed_kanji, parse_csv_entry(b_rows[b_row]))
         ELSE parsed_kanji
    /\ b_row' = b_row + 1
    /\ UNCHANGED <<b_pc, b_args, b_file, b_rows, kanji_list, gen_i, successful,
                   failed, attempts, reported, wrapVars, layoutVars>>

\* The reader raises (the outer except): parse_kanji_csv_file returns [].
ReadError ==
    /\ b_pc = "rows"
    /\ parsed_kanji' = <<>>
    /\ b_pc' = "parsed"
    /\ UNCHANGED <<b_args, b_file, b_rows, b_row, kanji_list, gen_i, successful,
                   failed, attempts, reported, wrapVars, layoutVars>>

\* The reader is exhausted: parse_kanji_csv_file returns parsed_kanji.
EndParse ==
    /\ b_pc = "rows"
    /\ b_row > Len(b_rows)
    /\ b_pc' = "parsed"
    /\ UNCHANGED <<b_args, b_file, b_rows, b_row, parsed_kanji, kanji_list, gen_i,
                   successful, failed, attempts, reported, wrapVars, layoutVars>>

\* "if not kanji_list: ... return", else the generation loop starts.
StartBatch ==
    /\ b_pc = "parsed"
    /\ kanji_list' = parsed_kanji
    /\ b_pc' = IF parsed_kanji = <<>> THEN "exit" ELSE "generate"
    /\ UNCHANGED <<b_args, b_file, b_rows, b_row, parsed_kanji, gen_i, successful,
                   failed, attempts, reported, wrapVars, layoutVars>>

\* One iteration of "for i, kanji_data in enumerate(kanji_list)": the call
\* returns and is counted, or it raises and the exception leaves main.
GenerateImage ==
    /\ b_pc = "generate"
    /\ gen_i < Len(kanji_list)
    /\ \E outcome \in CreateOutcomes(kanji_list[gen_i + 1]) :
         /\ attempts' = Append(attempts, [file_number |-> gen_i + 1,
                                          kanji |-> kanji_list[gen_i + 1].kanji,
                                          outcome |-> outcome])
         /\ successful' = IF outcome = "True" THEN successful + 1 ELSE successful
         /\ failed' = IF outcome = "False" THEN failed + 1 ELSE failed
         /\ b_pc' = IF outcome = "raise" THEN "uncaught" ELSE b_pc
         /\ gen_i' = IF outcome = "raise" THEN gen_i ELSE gen_i + 1
    /\ UNCHANGED <<b_args, b_file, b_rows, b_row, parsed_kanji, kanji_list,
                   reported, wrapVars, layoutVars>>

\* The loop is over: the counts are printed.
Report ==
    /\ b_pc = "generate"
    /\ gen_i >= Len(kanji_list)
    /\ reported' = TRUE
    /\ b_pc' = "exit"
    /\ UNCHANGED <<b_args, b_file, b_rows, b_row, parsed_kanji, kanji_list, gen_i,
                   successful, failed, attempts, wrapVars, layoutVars>>

NextBatch ==
    \/ Usage
    \/ StartParse
    \/ ParseRow
    \/ ReadError
    \/ EndParse
    \/ StartBatch
    \/ GenerateImage
    \/ Report

SpecBatch == InitBatch /\ [][NextBatch]_vars

\* ----------------------------------------------- properties of the batch
\* C6 as claimed: no exception leaves the batch loop; whatever each entry's
\* outcome, every entry is processed and counted, and the counts are reported.
C6_ErrorsIsolated ==
    /\ b_pc # "uncaught"
    /\ (b_pc = "exit" /\ kanji_list # <<>>) =>
          /\ reported
          /\ Len(attempts) = Len(kanji_list)
          /\ successful + failed = Len(kanji_list)

RECURSIVE ValidEntries(_)
\* The entries of the rows that have all columns and a non-blank kanji.
ValidEntries(row_list) ==
    IF row_list = <<>> THEN <<>>
    ELSE (IF Head(row_list).complete /\ Strip(Head(row_list).kanji) # <<>>
          THEN <<[kanji |-> Strip(Head(row_list).kanji)]>>
          ELSE <<>>)
         \o ValidEntries(Tail(row_list))

\* C9 (invalid entries are a parse-time skip): the rows read so far without a
\* kanji are not in the parsed list and the rows after them are; no entry
\* without a kanji reaches the generation loop; failed counts only the
\* create_kanji_image calls that returned False; the file numbers 1, 2, ...
\* go to the valid entries in the order of their rows.
C9_ParseTimeSkip ==
    /\ b_pc = "rows" => parsed_kanji = ValidEntries(SubSeq(b_rows, 1, b_row - 1))
    /\ b_pc \in {"generate", "uncaught"} \/ reported =>
          kanji_list = ValidEntries(b_rows)
    /\ \A i \in 1..Len(attempts) :
          /\ attempts[i].file_number = i
          /\ attempts[i].kanji # <<>>
          /\ attempts[i].kanji = ValidEntries(b_rows)[i].kanji
    /\ failed = Cardinality({i \in 1..Len(attempts) : attempts[i].outcome = "False"})

\* A batch that ended with a blank-kanji row between two valid rows, both of
\* which got their image and nothing counted as failed.
C9_Witness ==
    /\ reported
    /\ Len(b_rows) = 3
    /\ Strip(b_rows[2].kanji) = <<>> /\ b_rows[2].kanji # <<>>
    /\ Len(attempts) = 2
    /\ attempts[2].kanji = <<"a">>
    /\ failed = 0

\* --------------------------------------------- properties of the layout
\* The compounds the for loop has processed, and the lines each produced.
Processed == 1..Len(line_spans)
CompoundLines(j) == SubSeq(wrapped_compound_lines, line_spans[j][1], line_spans[j][2])

\* Width a line takes when drawn from right_x: up to the right end of its last
\* non-empty part, with the gaps the renderer leaves before it.
LineDrawnWidth(line) ==
    LET afterKanji == IF line.kanji # <<>> THEN TextWidth(line.kanji) + 8 ELSE 0
        afterReading == afterKanji
                        + (IF line.reading # <<>> THEN TextWidth(line.reading) + 12 ELSE 0)
    IN  IF line.meaning # <<>> THEN afterReading + TextWidth(line.meaning)
        ELSE IF line.reading # <<>> THEN afterKanji + TextWidth(line.reading)
        ELSE TextWidth(line.kanji)

\* C3 as claimed: every line record of the compound layout, the headword +
\* reading line of a split compound included, is at most max_box_width wide
\* when drawn; the only exception is a gloss-only line of one character wider
\* than the box.
C3_NoLineOverflows ==
    \A i \in 1..Len(wrapped_compound_lines) :
        LET line == wrapped_compound_lines[i]
        IN  \/ LineDrawnWidth(line) <= max_box_width
            \/ /\ line.kanji = <<>> /\ line.reading = <<>>
               /\ Len(line.meaning) = 1
               /\ TextWidth(line.meaning) > max_box_width

\* C4 (box clamp): once the box is computed, its height is at most the canvas
\* height left below box_y0 minus the fixed bottom margin of 30.
C4_BoxClamp ==
    pc \in {"render", "save", "done"} /\ rects # <<>> =>
        box_y1 - box_y0 <= (IMAGE_HEIGHT - box_y0) - 30

\* A box whose lines need more height than the canvas has left.
C4_Witness ==
    /\ pc = "render"
    /\ Len(wrapped_compound_lines) * line_spacing
         > (IMAGE_HEIGHT - box_y0 - 30) - (box_padding * 2)
    /\ box_y0 = 105

\* The cursor y of line i of the render loop.
CursorY(i) == box_y0 + box_padding + (i - 1) * line_spacing

\* C5 as claimed: a compound with Wk + 8 + Wr + 12 + Wm <= max_box_width gives
\* exactly one line holding its three parts unchanged, and the renderer draws
\* the headword at right_x, the reading at right_x + Wk + 8 and the gloss at
\* right_x + Wk + 8 + Wr + 12.
C5_SingleLineAsClaimed ==
    pc = "save" =>
      \A j \in Processed :
        LET c == kanji_data.compounds[j]
            f == line_spans[j][1]
            Wk == TextWidth(c.kanji)
            Wr == TextWidth(c.reading)
        IN  Wk + 8 + Wr + 12 + TextWidth(c.meaning) <= max_box_width =>
              /\ CompoundLines(j) = <<c>>
              /\ f <= Len(drawn)
              /\ drawn[f] =
                   (IF c.kanji # <<>>
                    THEN <<[part |-> "kanji", x |-> right_x, y |-> CursorY(f),
                            text |-> c.kanji]>> ELSE <<>>)
                   \o (IF c.reading # <<>>
                       THEN <<[part |-> "reading", x |-> right_x + Wk + 8,
                               y |-> CursorY(f), text |-> c.reading]>> ELSE <<>>)
                   \o (IF c.meaning # <<>>
                       THEN <<[part |-> "meaning", x |-> right_x + Wk + 8 + Wr + 12,
                               y |-> CursorY(f), text |-> c.meaning]>> ELSE <<>>)

\* C5 (amended): such a compound gives exactly one line holding its three
\* parts unchanged; when the render loop reaches that line before its cut-off,
\* it draws each non-empty part, the headword at right_x, the reading after the
\* headword and its 8 px gap only when the headword is not empty, the gloss
\* after the reading and its 12 px gap only when the reading is not empty.
C5_SingleLine ==
    pc = "save" =>
      \A j \in Processed :
        LET c == kanji_data.compounds[j]
            f == line_spans[j][1]
            Wk == TextWidth(c.kanji)
            Wr == TextWidth(c.reading)
            xr == right_x + (IF c.kanji # <<>> THEN Wk + 8 ELSE 0)
            xm == xr + (IF c.reading # <<>> THEN Wr + 12 ELSE 0)
        IN  Wk + 8 + Wr + 12 + TextWidth(c.meaning) <= max_box_width =>
              /\ CompoundLines(j) = <<c>>
              /\ f <= Len(drawn) =>
                   drawn[f] =
                     (IF c.kanji # <<>>
                      THEN <<[part |-> "kanji", x |-> right_x, y |-> CursorY(f),
                              text |-> c.kanji]>> ELSE <<>>)
                     \o (IF c.reading # <<>>
                         THEN <<[part |-> "reading", x |-> xr,
                                 y |-> CursorY(f), text |-> c.reading]>> ELSE <<>>)
                     \o (IF c.meaning # <<>>
                         THEN <<[part |-> "meaning", x |-> xm,
                                 y |-> CursorY(f), text |-> c.meaning]>> ELSE <<>>)

\* A single-line compound with an empty reading and a non-empty headword and
\* gloss was drawn, after another compound's lines.
C5_Witness ==
    /\ pc = "save"
    /\ \E j \in Processed :
         LET c == kanji_data.compounds[j]
         IN  /\ total_width(c) <= max_box_width
             /\ c.kanji # <<>> /\ c.reading = <<>> /\ c.meaning # <<>>
             /\ j > 1
             /\ line_spans[j][1] <= Len(drawn)
             /\ Len(drawn[line_spans[j][1]]) = 2

\* C7 (empty input): an entry without compounds gives no line, exactly one box
\* of height 2 * box_padding + 30 = 60, and no compound text is drawn.
C7_EmptyInput ==
    pc \in {"save", "done"} /\ kanji_data.kanji # <<>> /\ kanji_data.compounds = <<>> =>
        /\ wrapped_compound_lines = <<>>
        /\ Len(rects) = 1
        /\ rects[1][4] - rects[1][2] = 60
        /\ rects[1][2] = box_y0
        /\ drawn = <<>>

\* An entry without compounds was rendered and saved.
C7_Witness ==
    /\ pc = "done"
    /\ result = "True"
    /\ kanji_data.compounds = <<>>
    /\ rects # <<>>

\* Longest prefix of the words whose single-space join is at most width wide.
RECURSIVE LongestFit(_, _, _)
LongestFit(word_list, n, width) ==
    IF n < Len(word_list) /\ TextWidth(Join(SubSeq(word_list, 1, n + 1))) <= width
    THEN LongestFit(word_list, n + 1, width)
    ELSE n

\* C10 (hybrid split): for a compound with total > max_box_width,
\* kr < max_box_width and max_box_width - kr > 20 whose first gloss word fits
\* the remainder, the first line holds the headword, the reading and the
\* longest prefix of the gloss words whose join fits max_box_width - kr; the
\* lines after it are exactly the wrapping at max_box_width of the remaining
\* words in their order, and there is none when no word remains.
C10_HybridSplit ==
    pc = "render" =>
    \A j \in Processed :
      LET c == kanji_data.compounds[j]
          kr == TextWidth(c.kanji) + 8 + TextWidth(c.reading) + 12
          ws == Split(c.meaning)
          n == LongestFit(ws, 0, max_box_width - kr)
      IN  /\ kr + TextWidth(c.meaning) > max_box_width
          /\ kr < max_box_width
          /\ max_box_width - kr > 20
          /\ n >= 1
          => CompoundLines(j) =
               <<[kanji |-> c.kanji, reading |-> c.reading,
                  meaning |-> Join(SubSeq(ws, 1, n))]>>
               \o (IF n < Len(ws)
                   THEN split_meaning_text(Join(SubSeq(ws, n + 1, Len(ws))),
                                           max_box_width, <<>>)
                   ELSE <<>>)

\* A hybrid split of a gloss with the same word twice, one on the first line
\* and one left over.
C10_Witness ==
    pc = "render" /\
    \E j \in Processed :
      LET c == kanji_data.compounds[j]
          ws == Split(c.meaning)
      IN  /\ CompoundBranch(c) = "hybrid"
          /\ Len(ws) = 2 /\ ws[1] = ws[2]
          /\ line_spans[j][2] = line_spans[j][1] + 1
          /\ wrapped_compound_lines[line_spans[j][1]].meaning = ws[1]

\* C11 (split without first-line gloss): for a compound with
\* total > max_box_width for which kr >= max_box_width, or
\* max_box_width - kr <= 20, or no gloss word fits max_box_width - kr, the
\* lines are exactly one headword + reading line with an empty gloss followed
\* by the wrapping of the whole gloss at max_box_width; with an empty gloss
\* that is the headword + reading line alone.
C11_SplitWithoutGloss ==
    pc = "render" =>
      \A j \in Processed :
        LET c == kanji_data.compounds[j]
            kr == TextWidth(c.kanji) + 8 + TextWidth(c.reading) + 12
            ws == Split(c.meaning)
        IN  /\ kr + TextWidth(c.meaning) > max_box_width
            /\ \/ kr >= max_box_width
               \/ max_box_width - kr <= 20
               \/ LongestFit(ws, 0, max_box_width - kr) = 0
            => /\ CompoundLines(j) =
                    <<[kanji |-> c.kanji, reading |-> c.reading, meaning |-> <<>>]>>
                    \o split_meaning_text(c.meaning, max_box_width, <<>>)
               /\ c.meaning = <<>> => Len(CompoundLines(j)) = 1

\* Two compounds were laid out: one whose reading leaves room but whose first
\* gloss word does not fit it, with gloss lines after its headword + reading
\* line, and one whose headword leaves no room at all.
C11_Witness ==
    /\ pc = "render"
    /\ \E j \in Processed :
         /\ CompoundBranch(kanji_data.compounds[j]) = "nofit"
         /\ line_spans[j][2] > line_spans[j][1]
         /\ wrapped_compound_lines[line_spans[j][1]].meaning = <<>>
    /\ \E j \in Processed :
         /\ CompoundBranch(kanji_data.compounds[j]) = "split"
         /\ line_spans[j][2] > line_spans[j][1]

\* The non-empty parts of a line, left to right.
NonEmptyParts(line) ==
    SelectSeq(<<line.kanji, line.reading, line.meaning>>, LAMBDA t : t # <<>>)

\* C12 (render cut-off): with a non-empty list of lines, the render loop
\* visits a leading part of the lines in order, line i at cursor
\* box_y0 + box_padding + (i - 1) * line_spacing, drawing its non-empty parts;
\* no line is drawn at a cursor beyond box_y1 - box_padding; and when the
\* box is not clamped (lineCount * line_spacing <= availableHeight -
\* 2 * box_padding) every line is drawn.
C12_RenderCutoff ==
    pc = "save" /\ wrapped_compound_lines # <<>> =>
      /\ Len(drawn) <= Len(wrapped_compound_lines)
      /\ \A i \in 1..Len(drawn) :
           /\ \A k \in 1..Len(drawn[i]) : drawn[i][k].y = CursorY(i)
           /\ [k \in 1..Len(drawn[i]) |-> drawn[i][k].text]
                = NonEmptyParts(wrapped_compound_lines[i])
           /\ CursorY(i) <= box_y1 - box_padding
      /\ Len(wrapped_compound_lines) * line_spacing
            <= (IMAGE_HEIGHT - box_y0 - 30) - 2 * box_padding
         => Len(drawn) = Len(wrapped_compound_lines)

\* The box was clamped and the loop stopped before the last line, after
\* drawing more than one.
C12_Witness ==
    /\ pc = "save"
    /\ Len(wrapped_compound_lines) * line_spacing
         > (IMAGE_HEIGHT - box_y0 - 30) - 2 * box_padding
    /\ Len(drawn) > 1
    /\ Len(drawn) < Len(wrapped_compound_lines)
    /\ drawn[Len(drawn)] # <<>>

\* C13 (no text drawn outside the box vertically): whatever the readings of
\* the entry (box_y0 = 105, 160 or 215) and however many lines the compounds
\* give, every line the render loop draws has a full line pitch inside the
\* box: box_y0 <= y and y + line_spacing <= box_y1 for its cursor y, also
\* when the box height was clamped to the canvas.
C13_LinePitchInsideBox ==
    pc \in {"save", "done"} =>
      \A i \in 1..Len(drawn) :
        drawn[i] # <<>> =>
          \A k \in 1..Len(drawn[i]) :
            /\ box_y0 <= drawn[i][k].y
            /\ drawn[i][k].y + line_spacing <= box_y1

\* ------------------------------------------------ properties of the wrapper
RECURSIVE StripSpaces(_)
StripSpaces(text) ==
    IF text = <<>> THEN <<>>
    ELSE IF Head(text) = " " THEN StripSpaces(Tail(text))
    ELSE <<Head(text)>> \o StripSpaces(Tail(text))

RECURSIVE ConcatMeanings(_)
ConcatMeanings(line_list) ==
    IF line_list = <<>> THEN <<>>
    ELSE Head(line_list).meaning \o ConcatMeanings(Tail(line_list))

\* Indices of the lines appended by _split_long_word.
FallbackLines == UNION {r[1]..r[2] : r \in w_fallback}

\* C1 (coverage): when _split_meaning_text has returned, the texts of the
\* appended lines, concatenated in order with the spaces removed, are the input
\* text with its whitespace removed: no character lost, duplicated or moved.
C1_Coverage ==
    w_pc \in {"done", "refed"} =>
        StripSpaces(ConcatMeanings(w_lines)) = StripSpaces(w_meaning)

\* A finished call that produced a line of several words and used the
\* character fallback as well.
C1_Witness ==
    /\ w_pc = "done"
    /\ w_fallback # {}
    /\ \E i \in 1..Len(w_lines) : Len(Split(w_lines[i].meaning)) >= 2
    /\ Len(w_lines) >= 2

\* C2 as claimed: every line is at most max_width wide unless it is a single
\* character, and every line of the character fallback is at most
\* 0.95 * max_width wide unless it is the single final character of the word,
\* on a line of its own (the last line of that _split_long_word call).
C2_WidthBoundAsClaimed ==
    /\ \A i \in 1..Len(w_lines) :
          \/ TextWidth(w_lines[i].meaning) <= w_max_width
          \/ Len(w_lines[i].meaning) = 1
    /\ \A r \in w_fallback : \A i \in r[1]..r[2] :
          \/ FitsWithMargin(TextWidth(w_lines[i].meaning), w_max_width)
          \/ (i = r[2] /\ Len(w_lines[i].meaning) = 1)

\* C2 (amended): every line is at most max_width wide unless it is a single
\* character, and every line of the character fallback is at most
\* 0.95 * max_width wide unless it is a single character, whichever character
\* of the word that is.
C2_WidthBound ==
    /\ \A i \in 1..Len(w_lines) :
          \/ TextWidth(w_lines[i].meaning) <= w_max_width
          \/ Len(w_lines[i].meaning) = 1
    /\ \A i \in FallbackLines :
          \/ FitsWithMargin(TextWidth(w_lines[i].meaning), w_max_width)
          \/ Len(w_lines[i].meaning) = 1

\* A fallback call whose first line is one character wider than 95% of
\* max_width and is followed by a line of several characters.
C2_Witness ==
    /\ w_pc = "done"
    /\ \E r \in w_fallback :
          /\ r[1] < r[2]
          /\ Len(w_lines[r[1]].meaning) = 1
          /\ ~FitsWithMargin(TextWidth(w_lines[r[1]].meaning), w_max_width)
          /\ Len(w_lines[r[2]].meaning) >= 2

\* C8 (idempotence): wrapping the text of a produced line again with the same
\* max_width gives exactly that one line.
C8_Idempotent ==
    w_pc = "refed" => w_relines = <<w_lines[w_refed]>>

\* A line of the character fallback, wider than max_width, was wrapped again.
C8_Witness ==
    /\ w_pc = "refed"
    /\ w_refed \in FallbackLines
    /\ TextWidth(w_lines[w_refed].meaning) > w_max_width
    /\ \E i \in 1..Len(w_lines) : Len(Split(w_lines[i].meaning)) >= 2

====
